---- MODULE Spec2Model ----
(***************************************************************************)
(* llvm-locstats: the debug location coverage calculator of               *)
(* llvm/tools/llvm-locstats/llvm-locstats.cpp.                             *)
(*                                                                         *)
(* The program walks the DIE tree of every compile unit depth first.  The  *)
(* tree is the input: it is produced here one DIE at a time, in pre-order, *)
(* each DIE's attributes drawn from a small set when the walk reaches it.  *)
(* `stack` is the path from the unit DIE to the DIE the walk is at; a      *)
(* frame is one activation of collectStatsRecursive, or, below a DIE at    *)
(* which collectStatsRecursive returned early, a DIE of the input that the *)
(* program never reaches (Reached = FALSE).                                *)
(*                                                                         *)
(* ScopeLowPC (getLowPC, lines 79-89) is passed down the recursion but is  *)
(* read nowhere, so it is not carried in the frames.  Addresses are drawn  *)
(* with Begin <= End and LowPC <= HighPC and stay far below 2^64, so no    *)
(* uint64_t subtraction or sum wraps.                                      *)
(***************************************************************************)
EXTENDS Integers, Sequences, FiniteSets, TLC

VARIABLES
    Help,                  \* cl::opt -h
    InputFilename,         \* cl::opt positional
    OnlyFormalParameters,  \* cl::opt -only-formal-parameters
    OnlyVariables,         \* cl::opt -only-variables
    IgnoreInlined,         \* cl::opt -ignore-inlined
    IgnoreEntryValues,     \* cl::opt -ignore-entry-values
    pc,                    \* where the program is
    stack,                 \* the recursion of collectStatsRecursive
    LocStatistics,         \* std::map<int, unsigned long>
    CumulNumOfVars,        \* unsigned
    TotalAverage,          \* double, only ever the sum of ints
    Eval,                  \* locals of the latest collectLocStatsForDie call
    NumDies,               \* DIEs and units of the input consumed so far
    OS,                    \* the lines written to the output stream
    Diag,                  \* what was written to the error stream
    ExitCode               \* the process's exit status, -1 while it runs

vars == <<Help, InputFilename, OnlyFormalParameters, OnlyVariables,
          IgnoreInlined, IgnoreEntryValues, pc, stack, LocStatistics,
          CumulNumOfVars, TotalAverage, Eval, NumDies, OS, Diag, ExitCode>>

options == <<Help, InputFilename, OnlyFormalParameters, OnlyVariables,
             IgnoreInlined, IgnoreEntryValues>>

(***************************************************************************)
(* Bounds of the model.                                                    *)
(***************************************************************************)
MaxDies == 5
MaxDepth == 4
MaxEnd == 100

(***************************************************************************)
(* Program constants.                                                      *)
(***************************************************************************)
largest_cov_category == 12

\* INT_MIN of a 32-bit int.
IntMin == -2147483647 - 1

\* (int)Coverage when Coverage is NaN is undefined behaviour: cvttsd2si on
\* x86-64 gives INT_MIN, fcvtzs on AArch64 gives 0.
NaNToInt == {0, IntMin}

\* C++ integer division truncates toward zero; the divisor is positive.
CDiv(a, b) == IF a >= 0 THEN a \div b ELSE (a + b - 1) \div b

(***************************************************************************)
(* The input: DIEs.                                                        *)
(***************************************************************************)
ScopeTags == {"DW_TAG_subprogram", "DW_TAG_inlined_subroutine",
              "DW_TAG_lexical_block"}
VarTags == {"DW_TAG_variable", "DW_TAG_formal_parameter"}

NoLocation == [Form |-> "none", Found |-> FALSE, Entries |-> <<>>]
ExprLoc == [Form |-> "exprloc", Found |-> FALSE, Entries |-> <<>>]
NoList == [Form |-> "sec_offset", Found |-> FALSE, Entries |-> <<>>]
LocList(Entries) == [Form |-> "sec_offset", Found |-> TRUE, Entries |-> Entries]

LocEntry(Begin, End, Loc) == [Begin |-> Begin, End |-> End, Loc |-> Loc]

NoRanges == [Ok |-> FALSE, Vec |-> <<>>]
RangesOf(Vec) == [Ok |-> TRUE, Vec |-> Vec]
AddressRange(LowPC, HighPC) == [LowPC |-> LowPC, HighPC |-> HighPC]

\* The attributes of a DWARFDie that the program reads.
MkDie(Tag, Declaration, Artificial, External, Inline, ConstValue, Location, Ranges) ==
    [Tag |-> Tag, Declaration |-> Declaration, Artificial |-> Artificial,
     External |-> External, Inline |-> Inline, ConstValue |-> ConstValue,
     Location |-> Location, Ranges |-> Ranges]

PlainDie(Tag) ==
    MkDie(Tag, FALSE, FALSE, FALSE, FALSE, FALSE, NoLocation, RangesOf(<<>>))

RegLoc == <<"DW_OP_reg0">>
EntryValueLoc == <<"DW_OP_entry_value", "DW_OP_reg5", "DW_OP_stack_value">>
GNUEntryValueLoc == <<"DW_OP_GNU_entry_value", "DW_OP_reg5", "DW_OP_stack_value">>

\* The unit DIE getNonSkeletonUnitDIE returns.
UnitDies == {PlainDie("DW_TAG_compile_unit")}

ScopeDie(Tag, Declaration, Inline, Ranges) ==
    MkDie(Tag, Declaration, FALSE, FALSE, Inline, FALSE, NoLocation, Ranges)

VarDie(Tag, Declaration, Artificial, External, ConstValue, Location) ==
    MkDie(Tag, Declaration, Artificial, External, FALSE, ConstValue, Location,
          RangesOf(<<>>))

OneRange == RangesOf(<<AddressRange(0, 10)>>)
TwoRanges == RangesOf(<<AddressRange(0, 10), AddressRange(16, 26)>>)

\* Functions, inlined functions and blocks: with no, one or two ranges, and
\* the ones collectStatsRecursive gives up on.
ScopeDies ==
    {ScopeDie("DW_TAG_subprogram", FALSE, FALSE, RangesOf(<<>>)),
     ScopeDie("DW_TAG_subprogram", FALSE, FALSE, TwoRanges),
     ScopeDie("DW_TAG_inlined_subroutine", FALSE, FALSE, OneRange),
     ScopeDie("DW_TAG_lexical_block", FALSE, FALSE, OneRange),
     ScopeDie("DW_TAG_subprogram", TRUE, FALSE, RangesOf(<<>>)),
     ScopeDie("DW_TAG_subprogram", FALSE, TRUE, RangesOf(<<>>)),
     ScopeDie("DW_TAG_lexical_block", FALSE, FALSE, NoRanges)}

ShortList == LocList(<<LocEntry(0, 8, RegLoc)>>)
LongList == LocList(<<LocEntry(0, 8, RegLoc), LocEntry(8, 16, EntryValueLoc)>>)

\* Variables and formal parameters: every kind of location, and the
\* attributes collectLocStatsForDie looks at.
VarDies ==
    {VarDie(Tag, FALSE, FALSE, FALSE, FALSE, Location) :
        Tag \in VarTags,
        Location \in {NoLocation, ExprLoc, ShortList, LongList}}
    \cup {VarDie(Tag, FALSE, FALSE, FALSE, TRUE, LongList) : Tag \in VarTags}
    \cup {VarDie("DW_TAG_variable", TRUE, FALSE, FALSE, FALSE, NoLocation),
          VarDie("DW_TAG_variable", FALSE, TRUE, FALSE, FALSE, ExprLoc),
          VarDie("DW_TAG_variable", FALSE, FALSE, TRUE, FALSE, NoLocation),
          VarDie("DW_TAG_variable", FALSE, FALSE, TRUE, FALSE, ExprLoc)}

OtherDies == {PlainDie("DW_TAG_namespace"), PlainDie("DW_TAG_subroutine_type")}

ChildDies == ScopeDies \cup VarDies \cup OtherDies

(***************************************************************************)
(* collectLocStatsForDie, lines 91-184.                                    *)
(***************************************************************************)
\* Lines 97-113: the DIE contributes nothing.
Filtered(Die, ParentTag) ==
    \/ Die.Tag = "DW_TAG_variable" /\ OnlyFormalParameters
    \/ Die.Tag = "DW_TAG_formal_parameter" /\ OnlyVariables
    \/ Die.Declaration \/ Die.Artificial
    \/ Die.External /\ Die.Location.Form = "none"
    \/ Die.Tag = "DW_TAG_formal_parameter" /\ ParentTag = "DW_TAG_subroutine_type"

\* Lines 120-131: some operation of the expression is an entry value.
IsEntryValue(D) ==
    \E i \in 1..Len(D) : D[i] \in {"DW_OP_entry_value", "DW_OP_GNU_entry_value"}

\* Lines 144-151: the loop over List->Entries.
RECURSIVE SumEntries(_)
SumEntries(Entries) ==
    IF Entries = <<>> THEN 0
    ELSE LET Entry == Head(Entries)
         IN (IF IgnoreEntryValues /\ IsEntryValue(Entry.Loc) THEN 0
             ELSE Entry.End - Entry.Begin) + SumEntries(Tail(Entries))

\* A faulty Clamp: the "wrong location list" check is missing.
ClampNever(Sum, BytesInScope) == Sum

\* Lines 153-157.
Clamp(Sum, BytesInScope) == IF Sum > BytesInScope THEN BytesInScope ELSE Sum

\* Lines 140-157: Covered as line 159 reads it.
CoveredBytes(Die, BytesInScope) ==
    Clamp(IF Die.Location.Found THEN SumEntries(Die.Location.Entries) ELSE 0,
          BytesInScope)

\* A faulty CoverageOutcomes: the location is looked at before the constant.
CoverageOutcomesLocationFirst(Die, BytesInScope) ==
    IF Die.Location.Form = "sec_offset"
    THEN IF BytesInScope = 0 THEN NaNToInt
         ELSE {(100 * CoveredBytes(Die, BytesInScope)) \div BytesInScope}
    ELSE IF Die.Location.Form = "exprloc" \/ Die.ConstValue THEN {100}
    ELSE {0}

\* Lines 133-172: the values CoverageRounded can take.  The quotient of line
\* 159 lies in 0..100 and its truncation is the integer quotient; with
\* BytesInScope = 0 Covered is 0 too, the quotient is NaN and its conversion
\* to int is undefined.
CoverageOutcomes(Die, BytesInScope) ==
    IF Die.ConstValue THEN {100}
    ELSE IF Die.Location.Form # "none"
    THEN IF Die.Location.Form = "sec_offset"
         THEN IF BytesInScope = 0 THEN NaNToInt
              ELSE {(100 * CoveredBytes(Die, BytesInScope)) \div BytesInScope}
         ELSE {100}
    ELSE {0}

\* A faulty PercentageKey: the "+ 1" of line 180 is missing.
PercentageKeyNoShift(CoverageRounded) ==
    IF CoverageRounded = 0 THEN 0
    ELSE IF CoverageRounded = 100 THEN largest_cov_category - 1
    ELSE CDiv(CoverageRounded, 10)

\* Lines 174-180.
PercentageKey(CoverageRounded) ==
    IF CoverageRounded = 0 THEN 0
    ELSE IF CoverageRounded = 100 THEN largest_cov_category - 1
    ELSE CDiv(CoverageRounded, 10) + 1

\* Line 182: operator[] of std::map creates a missing key with value 0.
Increment(Map, Key) ==
    [k \in DOMAIN Map \cup {Key} |->
        (IF k \in DOMAIN Map THEN Map[k] ELSE 0) + (IF k = Key THEN 1 ELSE 0)]

\* TotalAverage is a double in the program and an integer here: a sum is
\* followed only while it stays in the model checker's integer range.
Representable(Total, Addend) ==
    IF Addend >= 0 THEN TRUE ELSE Total >= IntMin - Addend

collectLocStatsForDie(Die, ParentTag, BytesInScope) ==
    IF Filtered(Die, ParentTag)
    THEN /\ Eval' = <<>>
         /\ UNCHANGED <<LocStatistics, CumulNumOfVars, TotalAverage>>
    ELSE \E CoverageRounded \in CoverageOutcomes(Die, BytesInScope) :
            /\ Representable(TotalAverage, CoverageRounded)
            /\ TotalAverage' = TotalAverage + CoverageRounded
            /\ LocStatistics' =
                   Increment(LocStatistics, PercentageKey(CoverageRounded))
            /\ CumulNumOfVars' = CumulNumOfVars + 1
            /\ Eval' = <<[Die |-> Die,
                          ParentTag |-> ParentTag,
                          BytesInScope |-> BytesInScope,
                          Covered |-> IF ~Die.ConstValue
                                         /\ Die.Location.Form = "sec_offset"
                                      THEN CoveredBytes(Die, BytesInScope)
                                      ELSE 0,
                          CoverageRounded |-> CoverageRounded,
                          PercentageKey |-> PercentageKey(CoverageRounded)]>>

(***************************************************************************)
(* collectStatsRecursive, lines 186-248.                                   *)
(***************************************************************************)
\* An activation of collectStatsRecursive: the attributes of its Die that it
\* reads and its BytesInScope, as the loop over the children passes it on.
\* Descends: the activation gets to its loop over the children.
Frame(Die, BytesInScope, Descends) ==
    [Tag |-> Die.Tag,
     Declaration |-> Die.Tag \in ScopeTags /\ Die.Declaration,
     Inline |-> Die.Tag \in ScopeTags /\ Die.Inline,
     Ranges |-> IF Die.Tag \in ScopeTags THEN Die.Ranges ELSE RangesOf(<<>>),
     BytesInScope |-> BytesInScope,
     Reached |-> TRUE, Descends |-> Descends]

\* A DIE of the input for which no call is made.
Unreached(Die) ==
    [Tag |-> Die.Tag, Declaration |-> FALSE, Inline |-> FALSE,
     Ranges |-> RangesOf(<<>>), BytesInScope |-> 0,
     Reached |-> FALSE, Descends |-> FALSE]

Top == stack[Len(stack)]

\* A faulty Abandons: DW_AT_inline is not looked at.
AbandonsButInline(Die) ==
    \/ Die.Declaration
    \/ IgnoreInlined /\ Die.Tag = "DW_TAG_inlined_subroutine"
    \/ ~Die.Ranges.Ok

\* Lines 203-224: the early returns of a function, inlined function or block.
Abandons(Die) ==
    \/ Die.Declaration
    \/ Die.Inline
    \/ IgnoreInlined /\ Die.Tag = "DW_TAG_inlined_subroutine"
    \/ ~Die.Ranges.Ok

\* Lines 226-229.
RECURSIVE BytesInThisScope(_)
BytesInThisScope(Ranges) ==
    IF Ranges = <<>> THEN 0
    ELSE (Head(Ranges).HighPC - Head(Ranges).LowPC)
         + BytesInThisScope(Tail(Ranges))

\* A faulty ScopeBytes: a nested scope's bytes are added to the outer scope's.
ScopeBytesAdded(Die, BytesInScope) ==
    BytesInScope + BytesInThisScope(Die.Ranges.Vec)

\* Line 234: BytesInScope as the children of a function, inlined function or
\* block get it.
ScopeBytes(Die, BytesInScope) == BytesInThisScope(Die.Ranges.Vec)

\* One call of collectStatsRecursive, on a unit DIE (lines 301-304) or on a
\* child (lines 242-247), up to its loop over the children.
collectStatsRecursive ==
    /\ pc = "collect"
    /\ NumDies < MaxDies
    /\ Len(stack) < MaxDepth
    /\ (stack # <<>>) => Top.Descends
    /\ \E Die \in (IF stack = <<>> THEN UnitDies ELSE ChildDies) :
          LET BytesInScope == IF stack = <<>> THEN 0 ELSE Top.BytesInScope
              ParentTag == IF stack = <<>> THEN "" ELSE Top.Tag
          IN IF Die.Tag \in ScopeTags
             THEN /\ stack' =
                        IF Abandons(Die)
                        THEN Append(stack, Frame(Die, BytesInScope, FALSE))
                        ELSE Append(stack,
                                    Frame(Die, ScopeBytes(Die, BytesInScope),
                                          TRUE))
                  /\ Eval' = <<>>
                  /\ UNCHANGED <<LocStatistics, CumulNumOfVars, TotalAverage>>
             ELSE IF Die.Tag \in VarTags
             THEN /\ collectLocStatsForDie(Die, ParentTag, BytesInScope)
                  /\ stack' = Append(stack, Frame(Die, BytesInScope, TRUE))
             ELSE /\ stack' = Append(stack, Frame(Die, BytesInScope, TRUE))
                  /\ Eval' = <<>>
                  /\ UNCHANGED <<LocStatistics, CumulNumOfVars, TotalAverage>>
    /\ NumDies' = NumDies + 1
    /\ UNCHANGED <<options, pc, OS, Diag, ExitCode>>

\* A DIE below one at which collectStatsRecursive returned early: the loop of
\* lines 242-247 never ran for it, no call is made.
notVisited ==
    /\ pc = "collect"
    /\ NumDies < MaxDies
    /\ Len(stack) < MaxDepth
    /\ stack # <<>>
    /\ ~Top.Descends
    /\ \E Die \in ChildDies : stack' = Append(stack, Unreached(Die))
    /\ NumDies' = NumDies + 1
    /\ UNCHANGED <<options, pc, LocStatistics, CumulNumOfVars, TotalAverage,
                   Eval, OS, Diag, ExitCode>>

\* Child.getSibling() is null: the call returns to its caller.
return ==
    /\ pc = "collect"
    /\ stack # <<>>
    /\ stack' = SubSeq(stack, 1, Len(stack) - 1)
    /\ Eval' = <<>>
    /\ UNCHANGED <<options, pc, LocStatistics, CumulNumOfVars, TotalAverage,
                   NumDies, OS, Diag, ExitCode>>

\* Line 302: a unit without a unit DIE is passed over.
noUnitDie ==
    /\ pc = "collect"
    /\ stack = <<>>
    /\ NumDies < MaxDies
    /\ NumDies' = NumDies + 1
    /\ UNCHANGED <<options, pc, stack, LocStatistics, CumulNumOfVars,
                   TotalAverage, Eval, OS, Diag, ExitCode>>

(***************************************************************************)
(* outputLocStats, lines 250-289.                                          *)
(***************************************************************************)
Text(s) == [Kind |-> "text", Text |-> s]

\* Map[Key] of lines 264-281 (operator[] on a key the map may lack).
Lookup(Map, Key) == IF Key \in DOMAIN Map THEN Map[Key] ELSE 0

\* A row: its band, its samples and (int)(samples / (double)total * 100),
\* which for the totals of this model is the integer quotient.
Row(Low, High, Key) ==
    [Kind |-> "row", Low |-> Low, High |-> High,
     Samples |-> Lookup(LocStatistics, Key),
     Percentage |-> (Lookup(LocStatistics, Key) * 100) \div CumulNumOfVars]

\* Lines 273-274: the band printed on row i, 2 <= i <= 10.
RowLow(i) == (i - 1) * 10 + 1
RowHigh(i) == i * 10 - 1

\* Line 287: std::round, halves away from zero.
RoundedMean(Total, Count) ==
    LET q == Total \div Count
        r == Total % Count
    IN IF Total >= 0 THEN q + (IF 2 * r >= Count THEN 1 ELSE 0)
       ELSE q + (IF 2 * r > Count THEN 1 ELSE 0)

Table ==
    <<Text("================================================="),
      Text("           Debug Location Statistics"),
      Text("================================================="),
      Text("    cov%        samples        percentage"),
      Text("-------------------------------------------------"),
      Row(0, 0, 0),
      Row(1, 9, 1)>>
    \o [i \in 1..9 |-> Row(RowLow(i + 1), RowHigh(i + 1), i + 1)]
    \o <<Row(100, 100, 11),
         Text("================================================="),
         [Kind |-> "count", Value |-> CumulNumOfVars],
         [Kind |-> "average",
          Value |-> RoundedMean(TotalAverage, CumulNumOfVars)],
         Text("=================================================")>>

\* A faulty Report: the table is suppressed for one variable as well.
ReportAboveOne ==
    IF CumulNumOfVars <= 1 THEN <<Text("No coverage recorded.")>> ELSE Table

Report ==
    IF CumulNumOfVars = 0 THEN <<Text("No coverage recorded.")>> ELSE Table

\* Lines 306-307 and 373: the units are walked, the report is written, main
\* returns EXIT_SUCCESS.
outputLocStats ==
    /\ pc = "collect"
    /\ stack = <<>>
    /\ OS' = Report
    /\ pc' = "exit"
    /\ ExitCode' = 0
    /\ Eval' = <<>>
    /\ UNCHANGED <<options, stack, LocStatistics, CumulNumOfVars, TotalAverage,
                   NumDies, Diag>>

(***************************************************************************)
(* main, lines 337-373, with handleFile, handleBuffer and the head of      *)
(* collectLocstats (lines 294-299).                                        *)
(***************************************************************************)
Exit(Code, Message) ==
    /\ pc' = "exit"
    /\ ExitCode' = Code
    /\ Diag' = Message
    /\ UNCHANGED <<LocStatistics, CumulNumOfVars, TotalAverage>>

main ==
    /\ pc = "main"
    /\ IF Help THEN Exit(0, "help")
       ELSE IF InputFilename = "" THEN Exit(1, "no input file")
       ELSE IF OnlyFormalParameters /\ OnlyVariables
       THEN Exit(0, "incompatible arguments")
       ELSE \E Outcome \in {"output file", "input file", "binary",
                            "no object", "object"} :
               IF Outcome = "output file"
               THEN Exit(1, "Unable to open output file")
               ELSE IF Outcome \in {"input file", "binary"}
               THEN Exit(1, InputFilename)
               ELSE IF Outcome = "no object"
               THEN Exit(0, "")
               ELSE /\ pc' = "collect"
                    /\ LocStatistics' =
                           [i \in 0..(largest_cov_category - 1) |-> 0]
                    /\ CumulNumOfVars' = 0
                    /\ TotalAverage' = 0
                    /\ UNCHANGED <<ExitCode, Diag>>
    /\ UNCHANGED <<options, stack, Eval, NumDies, OS>>

Init ==
    /\ Help \in BOOLEAN
    /\ InputFilename \in {"", "a.o"}
    /\ OnlyFormalParameters \in BOOLEAN
    /\ OnlyVariables \in BOOLEAN
    /\ IgnoreInlined \in BOOLEAN
    /\ IgnoreEntryValues \in BOOLEAN
    /\ pc = "main"
    /\ stack = <<>>
    /\ LocStatistics = <<>>
    /\ CumulNumOfVars = 0
    /\ TotalAverage = 0
    /\ Eval = <<>>
    /\ NumDies = 0
    /\ OS = <<>>
    /\ Diag = ""
    /\ ExitCode = -1

Next ==
    \/ main
    \/ collectStatsRecursive
    \/ notVisited
    \/ return
    \/ noUnitDie
    \/ outputLocStats

Spec == Init /\ [][Next]_vars

(***************************************************************************)
(* collectLocStatsForDie on its own: one call, for every variable or       *)
(* formal parameter of EvalDies under every parent of EvalParents, on the  *)
(* accumulators as collectLocstats sets them up.                           *)
(***************************************************************************)
EvalEntries ==
    {LocEntry(0, 50, RegLoc), LocEntry(0, 100, RegLoc),
     LocEntry(60, 90, RegLoc), LocEntry(60, 90, EntryValueLoc),
     LocEntry(60, 90, GNUEntryValueLoc)}

EvalLocations ==
    {NoLocation, ExprLoc, NoList, LocList(<<>>)}
    \cup {LocList(<<LocEntry(0, End, RegLoc)>>) : End \in 0..MaxEnd}
    \cup {LocList(<<First, Second>>) : First \in EvalEntries,
                                       Second \in EvalEntries}

EvalDies ==
    {VarDie(Tag, Declaration, Artificial, External, ConstValue, Location) :
        Tag \in VarTags, Declaration \in BOOLEAN, Artificial \in BOOLEAN,
        External \in BOOLEAN, ConstValue \in BOOLEAN,
        Location \in EvalLocations}

EvalParents ==
    {Frame(PlainDie("DW_TAG_compile_unit"), 0, TRUE),
     Frame(PlainDie("DW_TAG_subroutine_type"), 100, TRUE)}
    \cup {Frame(ScopeDie(Tag, FALSE, FALSE, RangesOf(<<AddressRange(0, Size)>>)),
                Size, TRUE) :
            Tag \in {"DW_TAG_subprogram", "DW_TAG_lexical_block"},
            Size \in {0, 7, 100}}

InitEval ==
    /\ Help = FALSE
    /\ InputFilename = "a.o"
    /\ OnlyFormalParameters \in BOOLEAN
    /\ OnlyVariables \in BOOLEAN
    /\ ~(OnlyFormalParameters /\ OnlyVariables)
    /\ IgnoreInlined = FALSE
    /\ IgnoreEntryValues \in BOOLEAN
    /\ pc = "eval"
    /\ stack \in {<<Parent>> : Parent \in EvalParents}
    /\ LocStatistics = [i \in 0..(largest_cov_category - 1) |-> 0]
    /\ CumulNumOfVars = 0
    /\ TotalAverage = 0
    /\ Eval = <<>>
    /\ NumDies = 0
    /\ OS = <<>>
    /\ Diag = ""
    /\ ExitCode = -1

evalDie ==
    /\ pc = "eval"
    /\ \E Die \in EvalDies :
          /\ collectLocStatsForDie(Die, Top.Tag, Top.BytesInScope)
          /\ stack' = Append(stack, Frame(Die, Top.BytesInScope, TRUE))
    /\ pc' = "evaluated"
    /\ NumDies' = NumDies + 1
    /\ UNCHANGED <<options, OS, Diag, ExitCode>>

NextEval == evalDie

SpecEval == InitEval /\ [][NextEval]_vars

(***************************************************************************)
(* Properties.                                                             *)
(***************************************************************************)
Categories == 0..(largest_cov_category - 1)

RECURSIVE SumCounts(_, _)
SumCounts(Map, Keys) ==
    IF Keys = {} THEN 0
    ELSE LET k == CHOOSE x \in Keys : TRUE
         IN Lookup(Map, k) + SumCounts(Map, Keys \ {k})

Collecting == DOMAIN LocStatistics # {}

Evaluated == Eval # <<>>

\* C1: once collectLocstats has set the histogram up, its keys are exactly
\* the 12 categories 0..11 and their counts add up to CumulNumOfVars.
HistogramSumsToCount ==
    Collecting =>
        /\ DOMAIN LocStatistics = Categories
        /\ SumCounts(LocStatistics, Categories) = CumulNumOfVars

\* C2: with -only-formal-parameters and -only-variables both given (and an
\* input file, and no -h) the run ends before any traversal or report, with
\* a diagnostic and a non-zero exit status.
BothOnlyFlagsIsFatal ==
    (pc = "exit" /\ ~Help /\ InputFilename # ""
        /\ OnlyFormalParameters /\ OnlyVariables) =>
        /\ NumDies = 0
        /\ OS = <<>>
        /\ Diag # ""
        /\ ExitCode # 0

\* C3: a counted variable or formal parameter without a constant value whose
\* location is a location list, in a scope of 0 bytes, has coverage 0: it is
\* counted in category 0 and adds 0 to the running total.
ZeroScopeListCoverageIsZero ==
    (Evaluated /\ ~Eval[1].Die.ConstValue
        /\ Eval[1].Die.Location.Form = "sec_offset"
        /\ Eval[1].BytesInScope = 0) =>
        /\ Eval[1].CoverageRounded = 0
        /\ Eval[1].PercentageKey = 0

\* C4: a percentage p in 0..100 is put in category 0 if p = 0, in category
\* 11 if p = 100 and in category p / 10 + 1 otherwise, so 5 goes to 1, 10 to
\* 2, 99 to 10, and the category lies in 0..11.
BucketingRule ==
    (Evaluated /\ Eval[1].CoverageRounded \in 0..100) =>
        LET p == Eval[1].CoverageRounded
            k == Eval[1].PercentageKey
        IN /\ k \in 0..11
           /\ (k = 0) <=> (p = 0)
           /\ (k = 11) <=> (p = 100)
           /\ p \in 1..99 => 10 * (k - 1) <= p /\ p <= 10 * (k - 1) + 9
           /\ p = 5 => k = 1
           /\ p = 10 => k = 2
           /\ p = 99 => k = 10

BucketingRuleWitness ==
    /\ Evaluated
    /\ Eval[1].CoverageRounded = 99
    /\ Eval[1].PercentageKey = 10
    /\ LocStatistics[10] = 1

\* C5: the rows of the report for categories 2..10 are labelled 10..19 to
\* 90..99, and a percentage put in category k, 2 <= k <= 10, lies in the band
\* printed on row k.
RowBandHoldsCoverage ==
    /\ (pc = "exit" /\ Collecting /\ CumulNumOfVars > 0) =>
           \A k \in 2..10 : /\ OS[k + 6].Low = (k - 1) * 10
                            /\ OS[k + 6].High = k * 10 - 1
    /\ (Evaluated /\ Eval[1].PercentageKey \in 2..10) =>
           /\ RowLow(Eval[1].PercentageKey) <= Eval[1].CoverageRounded
           /\ Eval[1].CoverageRounded <= RowHigh(Eval[1].PercentageKey)

\* C6: the covered bytes of a location list never exceed the scope's bytes;
\* when the summed lengths of its entries (entry values left out under
\* -ignore-entry-values) exceed the scope's bytes, the covered bytes are the
\* scope's bytes exactly, and in a scope of more than 0 bytes the coverage is
\* 100, category 11.
ClampedToScope ==
    (Evaluated /\ ~Eval[1].Die.ConstValue
        /\ Eval[1].Die.Location.Form = "sec_offset") =>
        /\ Eval[1].Covered <= Eval[1].BytesInScope
        /\ (Eval[1].Die.Location.Found
            /\ SumEntries(Eval[1].Die.Location.Entries) > Eval[1].BytesInScope)
           => /\ Eval[1].Covered = Eval[1].BytesInScope
              /\ Eval[1].BytesInScope > 0 =>
                    /\ Eval[1].CoverageRounded = 100
                    /\ Eval[1].PercentageKey = 11

ClampedToScopeWitness ==
    /\ Evaluated
    /\ ~Eval[1].Die.ConstValue
    /\ Eval[1].Die.Location.Found
    /\ Len(Eval[1].Die.Location.Entries) = 2
    /\ IgnoreEntryValues
    /\ SumEntries(Eval[1].Die.Location.Entries) = 130
    /\ Eval[1].BytesInScope = 100
    /\ Eval[1].Covered = 100
    /\ Eval[1].PercentageKey = 11

\* C7: a counted variable or formal parameter with a constant value has
\* coverage 100, category 11, whatever its location and its scope's bytes.
ConstValueIsFullCoverage ==
    (Evaluated /\ Eval[1].Die.ConstValue) =>
        /\ Eval[1].CoverageRounded = 100
        /\ Eval[1].PercentageKey = 11
        /\ LocStatistics[11] >= 1
        /\ TotalAverage >= 100

ConstValueIsFullCoverageWitness ==
    /\ Evaluated
    /\ Eval[1].Die.ConstValue
    /\ Eval[1].Die.Location.Form = "sec_offset"
    /\ Eval[1].Die.Location.Entries = <<>>
    /\ Eval[1].BytesInScope = 0
    /\ Eval[1].CoverageRounded = 100

\* C8: after the traversal the run ends successfully; with no variable
\* counted the output is the one line "No coverage recorded.", and the table
\* is written if and only if CumulNumOfVars > 0.
ReportIffCounted ==
    (pc = "exit" /\ Collecting) =>
        /\ ExitCode = 0
        /\ CumulNumOfVars = 0 =>
              /\ Len(OS) = 1
              /\ OS[1].Kind = "text"
              /\ OS[1].Text = "No coverage recorded."
        /\ CumulNumOfVars > 0 <=> \E i \in 1..Len(OS) : OS[i].Kind = "row"

ReportIffCountedWitness ==
    /\ pc = "exit"
    /\ Collecting
    /\ OnlyVariables
    /\ NumDies >= 3
    /\ CumulNumOfVars = 0
    /\ Len(OS) = 1
    /\ OS[1].Text = "No coverage recorded."
    /\ ExitCode = 0

\* The function, inlined function or block of this frame is one the walk
\* gives up on.
GivenUp(F) ==
    /\ F.Reached
    /\ F.Tag \in ScopeTags
    /\ \/ F.Declaration
       \/ F.Inline
       \/ F.Tag = "DW_TAG_inlined_subroutine" /\ IgnoreInlined
       \/ ~F.Ranges.Ok

BelowGivenUp(S) == \E i \in 1..(Len(S) - 1) : GivenUp(S[i])

\* C9: a DIE below a function, inlined function or block that is a
\* declaration, is marked inline, is an inlined instance under
\* -ignore-inlined or has no address ranges is never reached and leaves the
\* histogram, the counter and the total alone; every other DIE is reached,
\* and counted if collectLocStatsForDie does not filter it.
SubtreeAbandoned ==
    [][Len(stack') = Len(stack) + 1 =>
          LET Entered == stack'[Len(stack')]
          IN IF BelowGivenUp(stack')
             THEN /\ ~Entered.Reached
                  /\ UNCHANGED <<LocStatistics, CumulNumOfVars, TotalAverage>>
             ELSE /\ Entered.Reached
                  /\ Eval' # <<>> => CumulNumOfVars' = CumulNumOfVars + 1]_vars

SubtreeAbandonedWitness ==
    /\ Len(stack) = 4
    /\ stack[2].Tag = "DW_TAG_subprogram"
    /\ stack[2].Inline
    /\ stack[3].Tag = "DW_TAG_lexical_block"
    /\ stack[4].Tag = "DW_TAG_variable"
    /\ ~stack[4].Reached
    /\ CumulNumOfVars = 0

\* The bytes of the nearest function, inlined function or block among the
\* first i frames, 0 if there is none.
NearestScopeBytes(i) ==
    LET Scopes == {j \in 1..i : stack[j].Tag \in ScopeTags}
    IN IF Scopes = {} THEN 0
       ELSE LET n == CHOOSE j \in Scopes : \A m \in Scopes : m <= j
            IN BytesInThisScope(stack[n].Ranges.Vec)

\* C10: the scope bytes an activation passes to its children, and the ones a
\* variable or formal parameter is measured against, are the summed ranges
\* of the nearest enclosing function, inlined function or block that the walk
\* did not give up on (0 if there is none).
ScopeIsNearest ==
    /\ \A i \in 1..Len(stack) :
          stack[i].Descends => stack[i].BytesInScope = NearestScopeBytes(i)
    /\ (Evaluated /\ pc = "collect") =>
          Eval[1].BytesInScope = NearestScopeBytes(Len(stack))

ScopeIsNearestWitness ==
    /\ Len(stack) = 4
    /\ stack[2].Tag = "DW_TAG_subprogram"
    /\ stack[2].BytesInScope = 20
    /\ stack[3].Tag = "DW_TAG_lexical_block"
    /\ stack[3].BytesInScope = 10
    /\ stack[4].Tag = "DW_TAG_variable"
    /\ Evaluated
    /\ Eval[1].BytesInScope = 10
    /\ Eval[1].CoverageRounded = 80
    /\ CumulNumOfVars = 1

====
